---- MODULE Spec2Model ----
(***************************************************************************)
(* A model of scripts/build_map.py: the run-time resolver (compute_dt_et), *)
(* the fetch cache (get_data over fetch_notable), the aggregation, species *)
(* colouring and layer decision of make_map, and the archive retention     *)
(* (save_and_publish, prune_archive).                                      *)
(*                                                                         *)
(* Python strings are sequences of one-character strings, so that split,   *)
(* int(), strftime, startswith/endswith and the lexical sort are computed  *)
(* character by character.  An optional value (None or a value) is a       *)
(* sequence of length 0 or 1.                                              *)
(***************************************************************************)
EXTENDS Integers, Sequences, FiniteSets, TLC

\* ------------------------------------------------------------------ bounds
\* Number of timestamped artifacts a directory may hold before a call.
NumOld == 3
\* keep ranges over -MaxKeep .. MaxKeep.
MaxKeep == 2
\* Number of get_data calls in one process.
MaxGetCalls == 3
\* Number of instants the wall clock runs through.
MaxClock == 3
\* Number of make_map calls in one process.
MaxBuilds == 2
\* Length of the record sequences the eBird response may hold.
MaxFeedLen == 2
\* The large responses hold SPECIES_LAYER_THRESHOLD - Margin to
\* SPECIES_LAYER_THRESHOLD + Margin species.
Margin == 1

\* ----------------------------------------------------------------- strings
ASCII ==
  << " ", "!", "dquote", "#", "$", "%", "&", "'", "(", ")", "*", "+", ",", "-", ".", "/",
     "0", "1", "2", "3", "4", "5", "6", "7", "8", "9", ":", ";", "<", "=", ">", "?",
     "@", "A", "B", "C", "D", "E", "F", "G", "H", "I", "J", "K", "L", "M", "N", "O",
     "P", "Q", "R", "S", "T", "U", "V", "W", "X", "Y", "Z", "[", "backslash", "]", "^", "_",
     "backtick", "a", "b", "c", "d", "e", "f", "g", "h", "i", "j", "k", "l", "m", "n", "o",
     "p", "q", "r", "s", "t", "u", "v", "w", "x", "y", "z", "{", "|", "}", "~" >>

\* The code point of a character (ASCII[1] is the space, code point 32; the
\* double quote, backslash and backtick are held by names, no file name uses them).
Ord == [c \in {ASCII[i] : i \in 1..Len(ASCII)} |->
          31 + (CHOOSE i \in 1..Len(ASCII) : ASCII[i] = c)]

Digits == <<"0", "1", "2", "3", "4", "5", "6", "7", "8", "9">>
DigitChars == {Digits[i] : i \in 1..10}
DigitVal(c) == (CHOOSE i \in 1..10 : Digits[i] = c) - 1

\* Python's str comparison a < b: by code point, a proper prefix sorting first.
RECURSIVE StrLess(_, _)
StrLess(a, b) ==
  IF b = <<>> THEN FALSE
  ELSE IF a = <<>> THEN TRUE
  ELSE IF a[1] = b[1] THEN StrLess(Tail(a), Tail(b))
  ELSE Ord[a[1]] < Ord[b[1]]

\* str.startswith and str.endswith.
StartsWith(s, p) == Len(p) <= Len(s) /\ SubSeq(s, 1, Len(p)) = p
EndsWith(s, p) == Len(p) <= Len(s) /\ SubSeq(s, Len(s) - Len(p) + 1, Len(s)) = p

\* str(n) of an integer n >= 0: decimal digits, no padding.
RECURSIVE StrNat(_)
StrNat(n) == IF n < 10 THEN <<Digits[n + 1]>>
             ELSE StrNat(n \div 10) \o <<Digits[(n % 10) + 1]>>

\* strftime's two-digit fields (%m %d %H %M %S): zero-padded.
Pad2(n) == <<Digits[(n \div 10) + 1], Digits[(n % 10) + 1]>>

\* SortDesc without reverse=True: the ascending order.
RECURSIVE SortDesc_ascending(_)
SortDesc_ascending(S) ==
  IF S = {} THEN <<>>
  ELSE LET low == CHOOSE f \in S : \A g \in S : g = f \/ StrLess(f, g)
       IN <<low>> \o SortDesc_ascending(S \ {low})

\* list.sort(reverse=True) of a set of distinct strings.
RECURSIVE SortDesc(_)
SortDesc(S) ==
  IF S = {} THEN <<>>
  ELSE LET top == CHOOSE f \in S : \A g \in S : g = f \/ StrLess(g, f)
       IN <<top>> \o SortDesc(S \ {top})

\* sorted(...) of a set of distinct strings, ascending: each string at the
\* position given by the number of strings below it.
SortAsc(S) ==
  LET ranked == {<<Cardinality({y \in S : StrLess(y, x)}), x>> : x \in S}
  IN [i \in 1..Cardinality(S) |-> (CHOOSE p \in ranked : p[1] = i - 1)[2]]

\* A Python slice xs[k:] (a negative k counts from the end).
SliceFrom(xs, k) ==
  LET n == Len(xs)
      start == IF k >= 0 THEN (IF k > n THEN n ELSE k)
               ELSE (IF n + k < 0 THEN 0 ELSE n + k)
  IN SubSeq(xs, start + 1, n)

Range(xs) == {xs[i] : i \in 1..Len(xs)}

Abs(x) == IF x < 0 THEN 0 - x ELSE x

\* A local variable: F applied to the value of v, computed once.
Bind(v, F(_)) == CHOOSE r \in {F(x) : x \in {v}} : TRUE

\* ------------------------------------------------------ program constants
PREFIX == <<"e","b","i","r","d","_","r","a","d","i","u","s","_","m","a","p","_">>
SUFFIX == <<".","h","t","m","l">>
LATEST == <<"l","a","t","e","s","t",".","h","t","m","l">>
SLOT_12 == <<"1", "2">>
SLOT_21 == <<"2", "1">>
SPECIES_LAYER_THRESHOLD == 200
DEFAULT_KEEP_COUNT == 30
UNKNOWN == <<"U","n","k","n","o","w","n">>
UNKNOWN_LOCATION == <<"U","n","k","n","o","w","n"," ","l","o","c","a","t","i","o","n">>
NOTABLE_SIGHTINGS == <<"N","o","t","a","b","l","e"," ","s","i","g","h","t","i","n","g","s">>
BLUE_JAY == <<"B","l","u","e"," ","J","a","y">>
SNOWY_OWL == <<"S","n","o","w","y"," ","O","w","l">>
BIRD == <<"B","i","r","d"," ">>

\* ------------------------------------------------------------------- state
VARIABLES
  fs,           \* output_dir: file name -> content of every file present
  KEEP_COUNT,   \* the retention count read from the environment at import
  CACHE,        \* _CACHE: key -> the record sequence stored under it
  fetch_calls,  \* the arguments of every fetch_notable call made, in order
  get_calls,    \* the last get_data calls: arguments, key, result
  now,          \* the wall clock, as an index of Instant
  dt_calls,     \* the last compute_dt_et call: environment and result
  prune_calls,  \* the last prune_archive calls: arguments, files tried, result
  builds,       \* the last make_map call: inputs and what was published
  legend_seen   \* every (species, colour) pair a species_to_color table held

vars == <<fs, KEEP_COUNT, CACHE, fetch_calls, get_calls, now, dt_calls,
          prune_calls, builds, legend_seen>>

\* The last n entries of a log.
LastN(log, n) == IF Len(log) <= n THEN log ELSE SubSeq(log, Len(log) - n + 1, Len(log))

\* --------------------------------------------------------- compute_dt_et
\* str.split(sep) for a one-character separator.
RECURSIVE Split(_, _)
Split(s, sep) ==
  IF \A i \in 1..Len(s) : s[i] # sep THEN <<s>>
  ELSE LET i == CHOOSE j \in 1..Len(s) :
                  s[j] = sep /\ \A k \in 1..(j - 1) : s[k] # sep
       IN <<SubSeq(s, 1, i - 1)>> \o Split(SubSeq(s, i + 1, Len(s)), sep)

\* The characters int() strips from both ends: Unicode whitespace, of which
\* the strings here may hold the space, tab, line feed, carriage return, form
\* feed and (by name) the vertical tab.
Whitespace == {" ", "\t", "\n", "\r", "\f", "vtab"}

\* The strip of int(): leading and trailing whitespace.
RECURSIVE Strip(_)
Strip(s) ==
  IF s = <<>> THEN s
  ELSE IF s[1] \in Whitespace THEN Strip(Tail(s))
  ELSE IF s[Len(s)] \in Whitespace THEN Strip(SubSeq(s, 1, Len(s) - 1))
  ELSE s

\* The decimal digits int() reads: the ASCII digits and the digits of other
\* scripts (Unicode category Nd), of which the strings here may hold the
\* Devanagari nine, U+096F, by name.
DEVANAGARI_NINE == "U+096F"
IntDigitChars == DigitChars \cup {DEVANAGARI_NINE}
IntDigitVal(c) == IF c = DEVANAGARI_NINE THEN 9 ELSE DigitVal(c)

\* The value of a digit string, underscores skipped.
RECURSIVE DigitsVal(_)
DigitsVal(s) ==
  IF s = <<>> THEN 0
  ELSE IF s[Len(s)] = "_" THEN DigitsVal(SubSeq(s, 1, Len(s) - 1))
  ELSE 10 * DigitsVal(SubSeq(s, 1, Len(s) - 1)) + IntDigitVal(s[Len(s)])

\* int(s): <<value>>, or <<>> where int raises ValueError.  After the strip
\* and an optional "+", the rest is one or more digits, single underscores
\* allowed between two digits.  (A "-" never reaches int here: the date is
\* split on it.)
PyInt(s) ==
  LET t == Strip(s)
      u == IF t # <<>> /\ t[1] = "+" THEN Tail(t) ELSE t
  IN IF /\ u # <<>>
        /\ \A i \in 1..Len(u) :
             \/ u[i] \in IntDigitChars
             \/ /\ u[i] = "_"
                /\ 1 < i /\ i < Len(u)
                /\ u[i - 1] \in IntDigitChars /\ u[i + 1] \in IntDigitChars
     THEN <<DigitsVal(u)>> ELSE <<>>

IsLeap(y) == (y % 4 = 0 /\ y % 100 # 0) \/ y % 400 = 0
DaysInMonth(y, mo) ==
  IF mo = 2 THEN (IF IsLeap(y) THEN 29 ELSE 28)
  ELSE IF mo \in {4, 6, 9, 11} THEN 30 ELSE 31

\* datetime(y, mo, d, h, 0, 0, tzinfo=tz): <<dt>>, or <<>> where it raises.
MakeDatetime(y, mo, d, h) ==
  IF /\ 1 <= y /\ y <= 9999
     /\ 1 <= mo /\ mo <= 12
     /\ 1 <= d /\ d <= DaysInMonth(y, mo)
  THEN <<[y |-> y, mo |-> mo, d |-> d, h |-> h, mi |-> 0, s |-> 0, us |-> 0]>>
  ELSE <<>>

\* The body of the try block when the override is taken: <<dt>>, or <<>> when
\* the unpacking, an int() or datetime() raises.
ScheduledInstant(run_date, run_slot) ==
  LET parts == Split(run_date, "-")
  IN IF Len(parts) # 3 THEN <<>>
     ELSE LET y == PyInt(parts[1])
              mo == PyInt(parts[2])
              d == PyInt(parts[3])
              h == PyInt(run_slot)
          IN IF y = <<>> \/ mo = <<>> \/ d = <<>> \/ h = <<>> THEN <<>>
             ELSE MakeDatetime(y[1], mo[1], d[1], h[1])

\* dt.strftime("%Y-%m-%d_%H-%M-%S_ET"); %Y prints the year without padding.
FileStr(dt) ==
  StrNat(dt.y) \o <<"-">> \o Pad2(dt.mo) \o <<"-">> \o Pad2(dt.d) \o <<"_">>
    \o Pad2(dt.h) \o <<"-">> \o Pad2(dt.mi) \o <<"-">> \o Pad2(dt.s)
    \o <<"_", "E", "T">>

\* compute_dt_et without the except clause: a failure in the override path
\* escapes to the caller.
compute_dt_et_no_except(run_date, run_slot, now_dt) ==
  LET override == run_date # <<>> /\ run_slot \in {SLOT_12, SLOT_21}
      tried == IF override THEN ScheduledInstant(run_date, run_slot) ELSE <<now_dt>>
      dt == IF tried # <<>> THEN tried[1] ELSE now_dt
  IN [raised |-> tried = <<>>,
      mode |-> IF override /\ tried # <<>> THEN "scheduled" ELSE "now",
      dt |-> dt,
      file_str |-> FileStr(dt)]

\* compute_dt_et with RUN_DATE_ET = run_date, RUN_SLOT = run_slot (an unset
\* variable reads as ""), and datetime.now(tz) = now_dt.  mode tells which
\* assignment to dt was the last one executed.
compute_dt_et(run_date, run_slot, now_dt) ==
  LET override == run_date # <<>> /\ run_slot \in {SLOT_12, SLOT_21}
      tried == IF override THEN ScheduledInstant(run_date, run_slot) ELSE <<now_dt>>
      dt == IF tried # <<>> THEN tried[1] ELSE now_dt
  IN [raised |-> FALSE,
      mode |-> IF override /\ tried # <<>> THEN "scheduled" ELSE "now",
      dt |-> dt,
      file_str |-> FileStr(dt)]

\* ---------------------------------------------------------- prune_archive
\* A number argument (a radius, a lookback): the int n, or the float
\* n + tenth/10, both >= 0.
IntNum(n) == [float |-> FALSE, tenths |-> 10 * n]
FloatNum(n, tenth) == [float |-> TRUE, tenths |-> 10 * n + tenth]

\* f"{radius_km}": "10" for the int 10, "5.0" for the float 5.0.
StrRadius(r) ==
  IF r.float THEN StrNat(r.tenths \div 10) \o <<".", Digits[(r.tenths % 10) + 1]>>
  ELSE StrNat(r.tenths \div 10)

\* The base name of make_map's outfile.
ArtifactName(ts_file_et, radius_km) ==
  PREFIX \o ts_file_et \o <<"_">> \o StrRadius(radius_km) \o <<"k", "m">> \o SUFFIX

\* The filter of the listing: f.startswith(...) and f.endswith(".html").
IsArtifact(f) == StartsWith(f, PREFIX) /\ EndsWith(f, SUFFIX)

\* RemoveEach without the inner try: the first failing os.remove ends the loop
\* and the exception escapes it.
RECURSIVE RemoveEach_abort(_, _, _)
RemoveEach_abort(dir, to_remove, failing) ==
  IF to_remove = <<>> THEN [dir |-> dir, tried |-> <<>>, raised |-> FALSE]
  ELSE LET f == to_remove[1]
       IN IF f \in failing THEN [dir |-> dir, tried |-> <<f>>, raised |-> TRUE]
          ELSE LET rest == RemoveEach_abort([g \in (DOMAIN dir) \ {f} |-> dir[g]],
                                            Tail(to_remove), failing)
               IN [rest EXCEPT !.tried = <<f>> \o @]

\* The for loop over to_remove: os.remove raises for the files in failing, the
\* inner except swallows it and the loop goes on.  tried lists the files
\* os.remove was called on.
RECURSIVE RemoveEach(_, _, _)
RemoveEach(dir, to_remove, failing) ==
  IF to_remove = <<>> THEN [dir |-> dir, tried |-> <<>>, raised |-> FALSE]
  ELSE LET f == to_remove[1]
           after == IF f \in failing THEN dir
                    ELSE [g \in (DOMAIN dir) \ {f} |-> dir[g]]
           rest == RemoveEach(after, Tail(to_remove), failing)
       IN [rest EXCEPT !.tried = <<f>> \o @]

\* prune_archive(dirpath, keep) on the directory dir; os.listdir raises when
\* list_ok is false.  The outer except turns any escaped exception into 0.
prune_archive(dir, keep, list_ok, failing) ==
  IF ~list_ok THEN [dir |-> dir, tried |-> <<>>, value |-> 0, raised |-> FALSE]
  ELSE LET files == SortDesc({f \in DOMAIN dir : IsArtifact(f)})
           to_remove == SliceFrom(files, keep)
           loop == RemoveEach(dir, to_remove, failing)
       IN [dir |-> loop.dir, tried |-> loop.tried, raised |-> FALSE,
           value |-> IF loop.raised THEN 0 ELSE Len(to_remove)]

\* The record of a prune_archive call.
PruneCall(dir, keep, list_ok, failing, res) ==
  [keep |-> keep, list_ok |-> list_ok, before |-> dir, tried |-> res.tried,
   failed |-> failing \cap Range(res.tried), value |-> res.value,
   raised |-> res.raised]

PruneArchive(keep, list_ok, failing) ==
  LET res == prune_archive(fs, keep, list_ok, failing)
  IN /\ fs' = res.dir
     /\ prune_calls' = LastN(Append(prune_calls, PruneCall(fs, keep, list_ok, failing, res)), 2)
     /\ UNCHANGED <<KEEP_COUNT, CACHE, fetch_calls, get_calls, now, dt_calls,
                    builds, legend_seen>>

\* ------------------------------------------------- fetch_notable, get_data
\* Round6 cutting the 7th decimal off instead of rounding.
Round6_truncate(x) == IF x >= 0 THEN x \div 10 ELSE 0 - ((0 - x) \div 10)

\* residue * 2^shifts modulo 10^7.
RECURSIVE ShiftMod(_, _)
ShiftMod(residue, shifts) ==
  IF shifts = 0 \/ residue = 0 THEN residue
  ELSE IF shifts >= 7 THEN ShiftMod((128 * residue) % 10000000, shifts - 7)
  ELSE ShiftMod((2 * residue) % 10000000, shifts - 1)

\* The exponent of the float n / 10^7 (n > 0), the e with
\* 2^e <= n / 10^7 < 2^(e + 1), counted from expo for scaled = n.
RECURSIVE FloatExponent(_, _)
FloatExponent(scaled, expo) ==
  IF scaled >= 20000000 THEN FloatExponent(scaled \div 2, expo + 1)
  ELSE IF scaled < 10000000 THEN FloatExponent(2 * scaled, expo - 1)
  ELSE expo

\* Where the float nearest to n / 10^7 (n > 0) lies: -1 below n / 10^7, 0 on
\* it, 1 above.  The float is m * 2^(e - 52) with m the integer nearest to
\* n * 2^(52 - e) / 10^7; the remainder of that division tells the side.
FloatSide(n) ==
  LET exponent == FloatExponent(n, 0)
      rem == ShiftMod(n % 10000000, 52 - exponent)
  IN IF rem = 0 THEN 0 ELSE IF rem < 5000000 THEN 0 - 1 ELSE 1

\* A coordinate is an integer number of 1e-7 degrees (CENTER_LAT = 42.3974042
\* is 423974042) and stands for the float nearest to it; a rounded coordinate
\* is an integer number of 1e-6 degrees.  round(x, 6) rounds the exact value
\* of the float to the nearest multiple of 1e-6: for a 7th decimal of 5 the
\* float lies below or above the decimal half and is rounded to that side,
\* and when it is the half exactly the even neighbour is taken.
Round6(x) ==
  LET a == Abs(x)
      q == a \div 10
      up == CASE a % 10 < 5 -> FALSE
              [] a % 10 > 5 -> TRUE
              [] OTHER -> LET side == FloatSide(a)
                          IN IF side = 0 THEN q % 2 = 1 ELSE side = 1
      r == IF up THEN q + 1 ELSE q
  IN IF x < 0 THEN 0 - r ELSE r

\* int(v) of a number >= 0: truncation.
PyIntOf(v) == v.tenths \div 10

\* The cache key of get_data.
CacheKey(lat, lon, radius_km, back_days) ==
  <<Round6(lat), Round6(lon), PyIntOf(radius_km), PyIntOf(back_days)>>

\* fetch_notable: resp is what the eBird request does, ok = FALSE standing for
\* any exception inside the try (no connection, 403, an HTTP error, bad JSON).
fetch_notable(resp) == IF resp.ok THEN resp.json ELSE <<>>

\* get_data testing the cached value instead of the key ("if _CACHE.get(key)"):
\* a cached empty result counts as a miss.
get_data_refetch_empty(cache, lat, lon, radius_km, back_days, resp) ==
  LET key == CacheKey(lat, lon, radius_km, back_days)
  IN IF key \in DOMAIN cache /\ cache[key] # <<>>
     THEN [data |-> cache[key], cache |-> cache, fetched |-> FALSE, key |-> key]
     ELSE LET data == fetch_notable(resp)
          IN [data |-> data,
              cache |-> [k \in (DOMAIN cache) \cup {key} |->
                           IF k = key THEN data ELSE cache[k]],
              fetched |-> TRUE, key |-> key]

\* get_data: the result, the cache after the call, and whether fetch_notable
\* was called.
get_data(cache, lat, lon, radius_km, back_days, resp) ==
  LET key == CacheKey(lat, lon, radius_km, back_days)
  IN IF key \in DOMAIN cache
     THEN [data |-> cache[key], cache |-> cache, fetched |-> FALSE, key |-> key]
     ELSE LET data == fetch_notable(resp)
          IN [data |-> data,
              cache |-> [k \in (DOMAIN cache) \cup {key} |->
                           IF k = key THEN data ELSE cache[k]],
              fetched |-> TRUE, key |-> key]

GetCall(lat, lon, radius_km, back_days, resp, res) ==
  [lat |-> lat, lon |-> lon, radius_km |-> radius_km, back_days |-> back_days,
   key |-> res.key, fetched |-> res.fetched, data |-> res.data]

FetchCall(lat, lon, radius_km, back_days, resp, res) ==
  [lat |-> lat, lon |-> lon, radius_km |-> radius_km, back_days |-> back_days,
   key |-> res.key, ok |-> resp.ok, returned |-> res.data]

GetData(lat, lon, radius_km, back_days, resp) ==
  LET res == get_data(CACHE, lat, lon, radius_km, back_days, resp)
  IN /\ Len(get_calls) < MaxGetCalls
     /\ CACHE' = res.cache
     /\ get_calls' = Append(get_calls, GetCall(lat, lon, radius_km, back_days, resp, res))
     /\ fetch_calls' = IF res.fetched
                       THEN Append(fetch_calls,
                                   FetchCall(lat, lon, radius_km, back_days, resp, res))
                       ELSE fetch_calls
     /\ UNCHANGED <<fs, KEEP_COUNT, now, dt_calls, prune_calls, builds,
                 legend_seen>>

\* ------------------------------------------------------ color_for_species
\* x or default: the default for None (<<>>) and for the empty string.
OrDefault(opt, default) == IF opt = <<>> \/ opt[1] = <<>> THEN default ELSE opt[1]

\* int(sha1("Bird 1").hexdigest(), 16) % 360, ..., for "Bird 1" to "Bird 210".
BirdHue ==
  <<
     304,  91, 313, 228, 151, 311, 205,  95, 330, 114,  41, 161, 188, 311, 194,
     125,  52, 266, 173,  40,  84,  82, 350,  51, 340, 183,  28,  74, 104, 238,
      94,  73, 101, 182,  35, 334, 183, 332, 325,  17, 185, 246, 145, 308, 291,
     293, 154, 100,  56, 332,  61, 359,  49, 236,  91, 258, 175,  54, 122,  83,
     200, 247,  98, 185,  56, 179, 181, 217,  57, 200, 187, 205, 285, 293, 238,
     171, 354, 163, 327,  78, 143, 340, 176,  54,  67, 118,  41, 235, 332, 102,
     292, 246, 293,  47, 210, 357, 242, 262, 355,  16, 148,  91, 238, 162, 239,
     331, 258,  94,  38,  20,  32, 299, 172, 203, 294, 315,  51,  40, 133, 247,
     352, 104, 223, 291, 202, 111, 187, 285, 310,  58, 291, 282,  24, 214, 122,
      58, 235, 113, 262, 174,  14, 148,  85, 106, 305,  19, 103, 328, 269, 250,
      59, 339,  48,  62, 152, 276, 259, 244, 294,  98, 286,  57, 135, 312, 108,
     214, 101, 226, 256, 281, 291, 189,  87,  14, 106, 145,  26, 258, 163,  95,
      10, 158,  99, 336, 108, 235, 246, 344, 278, 188,  42, 318, 222,  28, 331,
     106, 327, 138, 163, 103,  42,  11, 192, 345,  81, 307, 222,  26, 134, 280 >>

\* int(hashlib.sha1(s.encode("utf-8")).hexdigest(), 16) % 360 for the species
\* names of the model, tabulated from hashlib: "Unknown", "Blue Jay",
\* "Snowy Owl", and "Bird <i>".
Sha1Mod360(s) ==
  CASE s = UNKNOWN -> 6
    [] s = BLUE_JAY -> 73
    [] s = SNOWY_OWL -> 24
    [] StartsWith(s, BIRD) -> BirdHue[DigitsVal(SubSeq(s, Len(BIRD) + 1, Len(s)))]

\* int((v + m) * 255) for v = c * k / 60 with c = 0.63 and m = 0.135, in exact
\* arithmetic: v = 0 for k = 0, v = x for the hue's k, v = c for k = 60 (the
\* product is never within 0.002 of an integer, the float result is the same).
Channel(k) == (26775 * k + 344250) \div 10000

HexDigits == <<"0","1","2","3","4","5","6","7","8","9","a","b","c","d","e","f">>
\* "{:02x}" of a byte.
Hex2(n) == <<HexDigits[(n \div 16) + 1], HexDigits[(n % 16) + 1]>>

\* hsl_to_rgb(h) with s = 0.70 and l = 0.45.
hsl_to_rgb(h) ==
  LET k == 60 - Abs((h % 120) - 60)
      c == Channel(60)
      x == Channel(k)
      z == Channel(0)
      rgb == CASE h < 60 -> <<c, x, z>>
               [] h >= 60 /\ h < 120 -> <<x, c, z>>
               [] h >= 120 /\ h < 180 -> <<z, c, x>>
               [] h >= 180 /\ h < 240 -> <<z, x, c>>
               [] h >= 240 /\ h < 300 -> <<x, z, c>>
               [] OTHER -> <<c, z, x>>
  IN <<"#">> \o Hex2(rgb[1]) \o Hex2(rgb[2]) \o Hex2(rgb[3])

\* color_for_species(name), name being None (<<>>) or a string (<<s>>).
color_for_species(name) == hsl_to_rgb(Sha1Mod360(OrDefault(name, UNKNOWN)))

\* ----------------------------------------------------------------- make_map
\* datetime.now(tz) at clock reading i, to the microsecond: readings 2k and
\* 2k + 1 fall into the same second, half a second apart.
Instant(i) ==
  [y |-> 2024, mo |-> 3, d |-> 10, h |-> 12, mi |-> 5 * (i \div 2), s |-> 30,
   us |-> 500000 * (i % 2)]

\* AddRecord skipping an entry its group already holds.
AddRecord_dedupe(acc, s) ==
  LET loc == <<s.lat, s.lng>>
      sp == OrDefault(s.comName, UNKNOWN)
      entry == [entry_html |-> [sp |-> sp, how_many |-> s.howMany,
                                obs_date |-> s.obsDt,
                                checklist |-> IF s.subId = <<>> \/ s.subId[1] = <<>>
                                              THEN <<>> ELSE s.subId],
                loc_name |-> OrDefault(s.locName, UNKNOWN_LOCATION)]
      ls == acc.loc_species
      at_loc == IF loc \in DOMAIN ls THEN ls[loc] ELSE <<>>
      entries == IF sp \in DOMAIN at_loc THEN at_loc[sp] ELSE <<>>
      added == IF entry \in Range(entries) THEN entries ELSE Append(entries, entry)
  IN [loc_species |-> (loc :> ((sp :> added) @@ at_loc)) @@ ls,
      species_set |-> {x : x \in acc.species_set \cup {sp}}]

\* What the loop body adds for one record s: the species to species_set and
\* one entry to loc_species[(slat, slon)][sp].
AddRecord(acc, s) ==
  LET loc == <<s.lat, s.lng>>
      sp == OrDefault(s.comName, UNKNOWN)
      entry == [entry_html |-> [sp |-> sp, how_many |-> s.howMany,
                                obs_date |-> s.obsDt,
                                checklist |-> IF s.subId = <<>> \/ s.subId[1] = <<>>
                                              THEN <<>> ELSE s.subId],
                loc_name |-> OrDefault(s.locName, UNKNOWN_LOCATION)]
      ls == acc.loc_species
      at_loc == IF loc \in DOMAIN ls THEN ls[loc] ELSE <<>>
      entries == IF sp \in DOMAIN at_loc THEN at_loc[sp] ELSE <<>>
  IN [loc_species |-> (loc :> ((sp :> Append(entries, entry)) @@ at_loc)) @@ ls,
      species_set |-> {x : x \in acc.species_set \cup {sp}}]

\* The for loop over data, records lo..hi in their order.  (The range is
\* halved to keep the evaluation shallow; every record goes through AddRecord
\* once, after the records before it.)
RECURSIVE AggregateRange(_, _, _, _)
AggregateRange(acc, data, lo, hi) ==
  IF lo > hi THEN acc
  ELSE IF lo = hi THEN AddRecord(acc, data[lo])
  ELSE Bind((lo + hi) \div 2, LAMBDA mid :
         Bind(AggregateRange(acc, data, lo, mid), LAMBDA first :
           AggregateRange(first, data, mid + 1, hi)))

Aggregate(acc, data) == AggregateRange(acc, data, 1, Len(data))

\* species_to_color_of taking the colour from the position in the table.
species_to_color_of_by_rank(species_set) ==
  LET names == SortAsc(species_set)
  IN [i \in 1..Len(names) |-> <<names[i], hsl_to_rgb((137 * i) % 360)>>]

\* OrderedDict(sorted([(sp, color_for_species(sp)) ...], key=lambda x: x[0])).
species_to_color_of(species_set) ==
  LET names == SortAsc(species_set)
  IN [i \in 1..Len(names) |-> <<names[i], color_for_species(<<names[i]>>)>>]

\* too_many with >= for >.
too_many_inclusive(n) == n >= SPECIES_LAYER_THRESHOLD

\* too_many = len(species_to_color) > SPECIES_LAYER_THRESHOLD.
too_many(n) == n > SPECIES_LAYER_THRESHOLD

\* The map of the no-data branch: the notice, an empty legend, no layer.
EmptyMap(dt) ==
  [built |-> dt, notice |-> TRUE, layers |-> <<>>, legend |-> <<>>,
   loc_species |-> <<>>]

\* The map of the data branch: one layer per species, or the single cluster
\* "Notable sightings" when there are too many species.
DataMap(dt, data) ==
  Bind(Aggregate([loc_species |-> <<>>, species_set |-> {}], data), LAMBDA agg :
    Bind(species_to_color_of(agg.species_set), LAMBDA species_to_color :
      [built |-> dt, notice |-> FALSE,
       layers |-> IF too_many(Len(species_to_color)) THEN <<NOTABLE_SIGHTINGS>>
                  ELSE [i \in 1..Len(species_to_color) |-> species_to_color[i][1]],
       legend |-> species_to_color,
       loc_species |-> agg.loc_species]))

\* What shutil.copyfile(outfile, latest_path) does: it copies the whole file;
\* or it raises before latest.html is opened (the name is not writable); or it
\* raises after latest.html was created or truncated, with nothing written or
\* with only the first block written (the device is full).  save_and_publish
\* swallows the exception.
COPY_DONE == "copied"
COPY_REFUSED == "raised before latest.html was opened"
COPY_EMPTY == "raised after latest.html was truncated"
COPY_PARTIAL == "raised after the first block was written"
CopyOutcomes == {COPY_DONE, COPY_REFUSED, COPY_EMPTY, COPY_PARTIAL}

\* The content of a file that holds only the first blocks of the saved map
\* m: with no block the empty file, whatever m is.
TornCopy(m, blocks) ==
  [blocks |-> blocks, prefix_of |-> IF blocks = 0 THEN {} ELSE {m}]

\* m.save(outfile) and shutil.copyfile(outfile, latest_path) with the outcome
\* copy; when outfile is latest.html itself copyfile raises SameFileError
\* before it opens anything.
SaveAndCopy(dir, m, outfile, copy) ==
  LET saved == (outfile :> m) @@ dir
  IN CASE outfile = LATEST -> saved
       [] copy = COPY_DONE -> (LATEST :> m) @@ saved
       [] copy = COPY_EMPTY -> (LATEST :> TornCopy(m, 0)) @@ saved
       [] copy = COPY_PARTIAL -> (LATEST :> TornCopy(m, 1)) @@ saved
       [] OTHER -> saved

\* save_and_publish(m, outfile) on the directory dir with KEEP_COUNT = keep:
\* m.save, the copy to latest.html, the pruning.  os.remove raises for every
\* file when io.remove_ok is false.
save_and_publish(dir, m, outfile, keep, io) ==
  Bind(SaveAndCopy(dir, m, outfile, io.copy), LAMBDA copied :
    Bind({f \in DOMAIN copied : IsArtifact(f) /\ ~io.remove_ok}, LAMBDA failing :
      Bind(prune_archive(copied, keep, io.list_ok, failing), LAMBDA pruned :
        [dir |-> pruned.dir, saved |-> TRUE, m |-> m,
         prune |-> <<PruneCall(copied, keep, io.list_ok, failing, pruned)>>])))

\* The no-data branch of make_map returning without publishing.
empty_branch_unpublished(dir, dt, outfile, keep, io) ==
  [dir |-> dir, saved |-> FALSE, m |-> EmptyMap(dt), prune |-> <<>>]

\* The no-data branch of make_map ("if not data").
empty_branch(dir, dt, outfile, keep, io) ==
  save_and_publish(dir, EmptyMap(dt), outfile, keep, io)

\* The data branch of make_map.
data_branch(dir, dt, data, outfile, keep, io) ==
  save_and_publish(dir, DataMap(dt, data), outfile, keep, io)

\* make_map(lat, lon, radius_km, back_days) in the state (dir, cache), with
\* the environment env (RUN_DATE_ET, RUN_SLOT, KEEP_COUNT, the clock) and the
\* outcomes world of the external calls (the eBird response, the file system).
make_map(dir, cache, args, env, world) ==
  Bind(compute_dt_et(env.run_date, env.run_slot, env.now_dt), LAMBDA t :
    Bind(ArtifactName(t.file_str, args.radius_km), LAMBDA outfile :
      Bind(get_data(cache, args.lat, args.lon, args.radius_km, args.back_days,
                    world.resp), LAMBDA got :
        Bind(IF got.data = <<>>
             THEN empty_branch(dir, t.dt, outfile, env.keep, world.io)
             ELSE data_branch(dir, t.dt, got.data, outfile, env.keep, world.io),
             LAMBDA out :
          [dir |-> out.dir, cache |-> got.cache, got |-> got, t |-> t,
           outfile |-> outfile, m |-> out.m, saved |-> out.saved,
           prune |-> out.prune]))))

\* A make_map call in a process whose _CACHE holds cache.
MakeMapIn(cache, args, run_date, run_slot, resp, io) ==
  \E res \in {make_map(fs, cache, args,
                       [run_date |-> run_date, run_slot |-> run_slot,
                        keep |-> KEEP_COUNT, now_dt |-> Instant(now)],
                       [resp |-> resp, io |-> io])} :
     /\ fs' = res.dir
     /\ CACHE' = res.cache
     /\ get_calls' = Append(get_calls,
                            GetCall(args.lat, args.lon, args.radius_km,
                                    args.back_days, resp, res.got))
     /\ fetch_calls' = IF res.got.fetched
                       THEN Append(fetch_calls,
                                   FetchCall(args.lat, args.lon, args.radius_km,
                                             args.back_days, resp, res.got))
                       ELSE fetch_calls
     /\ dt_calls' = <<[run_date |-> run_date, run_slot |-> run_slot,
                       now_dt |-> Instant(now), raised |-> res.t.raised,
                       mode |-> res.t.mode, dt |-> res.t.dt,
                       file_str |-> res.t.file_str]>>
     /\ prune_calls' = LastN(prune_calls \o res.prune, 2)
     /\ builds' = <<[before |-> fs, data |-> res.got.data, fetch_ok |-> resp.ok,
                     fetched |-> res.got.fetched, outfile |-> res.outfile,
                     m |-> res.m, saved |-> res.saved, copy |-> io.copy]>>
     /\ legend_seen' = legend_seen \cup Range(res.m.legend)
     /\ UNCHANGED <<KEEP_COUNT, now>>

\* A make_map call in the running process.
MakeMap(args, run_date, run_slot, resp, io) ==
  MakeMapIn(CACHE, args, run_date, run_slot, resp, io)

\* The arguments of the script's call: make_map(CENTER_LAT, CENTER_LON,
\* DEFAULT_RADIUS_KM, BACK_DAYS).
ScriptArgs ==
  [lat |-> 423974042, lon |-> -711366337, radius_km |-> IntNum(10),
   back_days |-> IntNum(2)]

\* One run of the script: a new process, whose import leaves _CACHE empty,
\* makes the one make_map call of __main__.  (get_calls and fetch_calls go on
\* logging over the runs.)
RunScript(run_date, run_slot, resp, io) ==
  MakeMapIn(<<>>, ScriptArgs, run_date, run_slot, resp, io)

\* The clock advances.
Tick ==
  /\ now < MaxClock
  /\ now' = now + 1
  /\ UNCHANGED <<fs, KEEP_COUNT, CACHE, fetch_calls, get_calls, dt_calls,
                 prune_calls, builds, legend_seen>>

\* A save_and_publish(m, outfile) call made on its own in the running
\* process.
SaveAndPublish(m, outfile, io) ==
  \E res \in {save_and_publish(fs, m, outfile, KEEP_COUNT, io)} :
     /\ fs' = res.dir
     /\ prune_calls' = LastN(prune_calls \o res.prune, 2)
     /\ UNCHANGED <<KEEP_COUNT, CACHE, fetch_calls, get_calls, now, dt_calls,
                    builds, legend_seen>>

\* ------------------------------------------------------- initial states
\* The instants of earlier runs whose artifacts the directory may hold: the
\* noon and evening slots of consecutive days.
OldInstant(i) ==
  [y |-> 2024, mo |-> 3, d |-> 1 + ((i - 1) \div 2),
   h |-> IF i % 2 = 1 THEN 12 ELSE 21, mi |-> 0, s |-> 0, us |-> 0]

\* What an earlier run saved: a map with the no-data notice.
OldMap ==
  [built |-> OldInstant(1), notice |-> TRUE, layers |-> <<>>,
   legend |-> <<>>, loc_species |-> <<>>]

OldArtifacts == {ArtifactName(FileStr(OldInstant(i)), IntNum(10)) : i \in 1..NumOld}

\* Names that the filter of prune_archive must leave alone: the alias, a name
\* with the extension only, and a name with the prefix only.
INDEX_HTML == <<"i","n","d","e","x",".","h","t","m","l">>
PREFIX_ONLY == PREFIX \o <<"l","o","g",".","t","x","t">>
OtherNames == {LATEST, INDEX_HTML, PREFIX_ONLY}

Dirs == {[f \in D |-> OldMap] : D \in SUBSET (OldArtifacts \cup OtherNames)}

Keeps == (0 - MaxKeep)..MaxKeep

InitIdle ==
  /\ CACHE = <<>>
  /\ fetch_calls = <<>>
  /\ get_calls = <<>>
  /\ now = 1
  /\ dt_calls = <<>>
  /\ prune_calls = <<>>
  /\ builds = <<>>
  /\ legend_seen = {}

\* ------------------------------------------- the retention manager alone
InitPrune == InitIdle /\ fs \in Dirs /\ KEEP_COUNT = DEFAULT_KEEP_COUNT

NextPrune ==
  \E keep \in Keeps, list_ok \in BOOLEAN :
    \E failing \in SUBSET {f \in DOMAIN fs : IsArtifact(f)} :
      PruneArchive(keep, list_ok, failing)

SpecPrune == InitPrune /\ [][NextPrune]_vars

\* --------------------------------------------- properties of the retention
Artifacts(dir) == {f \in DOMAIN dir : IsArtifact(f)}

\* The k greatest names of S (none for k <= 0).
TopK(S, k) == {f \in S : Cardinality({g \in S : StrLess(f, g)}) < k}

\* A file is present in dir with the content it had in old.
Untouched(f, old, dir) == f \in DOMAIN dir /\ dir[f] = old[f]

LastPrune == prune_calls[Len(prune_calls)]

\* C1 as stated: after prune_archive(dir, keep) returns, at most keep artifact
\* files remain, they are exactly the keep greatest names, and latest.html is
\* still present and unchanged.
C1_AtMostKeepRemain ==
  prune_calls # <<>> =>
    LET c == LastPrune
    IN /\ Cardinality(Artifacts(fs)) <= c.keep
       /\ Artifacts(fs) = TopK(Artifacts(c.before), c.keep)
       /\ (LATEST \in DOMAIN c.before => Untouched(LATEST, c.before, fs))

\* C1 amended: prune_archive never creates or rewrites a file and never removes
\* latest.html or any other file that is not an artifact; for keep >= 0 the keep
\* greatest artifacts stay, for keep < 0 (a slice counted from the end) all but
\* the -keep smallest stay; an artifact outside that set remains only if its
\* deletion or the listing failed, so when nothing fails exactly that set
\* remains, which for keep >= 0 is at most keep files.
C1_KeepGreatestUnlessFailed ==
  prune_calls # <<>> =>
    LET c == LastPrune
        old == Artifacts(c.before)
        kept == IF c.keep >= 0 THEN TopK(old, c.keep)
                ELSE TopK(old, Cardinality(old) + c.keep)
    IN /\ \A f \in DOMAIN fs : f \in DOMAIN c.before /\ fs[f] = c.before[f]
       /\ \A f \in (DOMAIN c.before) \ old : Untouched(f, c.before, fs)
       /\ kept \subseteq Artifacts(fs)
       /\ Artifacts(fs) \ kept \subseteq (IF c.list_ok THEN c.failed ELSE old)
       /\ (c.list_ok /\ c.failed = {}) =>
             /\ Artifacts(fs) = kept
             /\ (c.keep >= 0 => Cardinality(Artifacts(fs)) <= c.keep)

\* A call with keep = 1 on three artifacts beside latest.html that removed the
\* two smallest names.
C1_Witness ==
  /\ prune_calls # <<>>
  /\ LastPrune.keep = 1
  /\ LastPrune.list_ok
  /\ LastPrune.failed = {}
  /\ Cardinality(Artifacts(LastPrune.before)) = 3
  /\ LATEST \in DOMAIN LastPrune.before
  /\ Cardinality(Artifacts(fs)) = 1
  /\ LATEST \in DOMAIN fs

\* C4 as stated, for calls in which the listing and every deletion succeeded:
\* the second of two consecutive prune_archive calls with the same keep deletes
\* no file and returns 0.
C4_SecondPruneIsNoOp ==
  (/\ Len(prune_calls) = 2
   /\ prune_calls[1].keep = prune_calls[2].keep
   /\ prune_calls[1].list_ok /\ prune_calls[1].failed = {}
   /\ prune_calls[2].list_ok /\ prune_calls[2].failed = {})
  => (prune_calls[2].value = 0 /\ fs = prune_calls[2].before)

\* C5: prune_archive raises nothing and returns the number of files it called
\* os.remove on; when the listing succeeds and keep >= 0 these are all the
\* artifacts past the keep greatest, in descending order, whether or not a
\* deletion among them failed; each one whose deletion did not fail is gone and
\* each one whose deletion failed is still there.
C5_CountsAttempts ==
  prune_calls # <<>> =>
    LET c == LastPrune
        old == Artifacts(c.before)
    IN /\ ~c.raised
       /\ c.value = Len(c.tried)
       /\ (c.list_ok /\ c.keep >= 0) =>
             /\ Range(c.tried) = old \ TopK(old, c.keep)
             /\ c.value = Cardinality(old \ TopK(old, c.keep))
       /\ \A i, j \in 1..Len(c.tried) : i < j => StrLess(c.tried[j], c.tried[i])
       /\ \A f \in Range(c.tried) : (f \in DOMAIN fs) <=> (f \in c.failed)

\* A call whose first deletion failed and which still removed a later file
\* and counted both.
C5_Witness ==
  /\ prune_calls # <<>>
  /\ LastPrune.keep = 1
  /\ Len(LastPrune.tried) = 2
  /\ LastPrune.tried[1] \in LastPrune.failed
  /\ LastPrune.tried[2] \notin DOMAIN fs
  /\ LastPrune.value = 2

\* --------------------------------------------------- the fetch cache alone
\* One sighting as the eBird API returns it.
PARK == <<"P","a","r","k">>
OBS_DT == <<"2","0","2","4","-","0","3","-","1","0"," ","0","7",":","1","5">>
Sighting(lat, lng, comName, locName, subId) ==
  [lat |-> lat, lng |-> lng, comName |-> comName, locName |-> locName,
   obsDt |-> <<OBS_DT>>, howMany |-> <<1>>, subId |-> subId]

Responses ==
  {[ok |-> FALSE, json |-> <<>>],
   [ok |-> TRUE, json |-> <<>>],
   [ok |-> TRUE, json |-> <<Sighting(420000000, -710000000, <<BLUE_JAY>>, <<PARK>>, <<>>)>>]}

\* 42.3974042 (CENTER_LAT), 42.3974048, 42.3974038 and 42.3974045, whose
\* float lies above the decimal half; -71.1366337 (CENTER_LON).
Lats == {423974042, 423974048, 423974038, 423974045}
Lons == {-711366337}
Radii == {IntNum(5), FloatNum(5, 0), IntNum(10)}
BackDays == {IntNum(2)}

InitCache == InitIdle /\ fs = <<>> /\ KEEP_COUNT = DEFAULT_KEEP_COUNT

NextCache ==
  \E lat \in Lats, lon \in Lons, radius_km \in Radii, back_days \in BackDays :
    \E resp \in Responses :
      GetData(lat, lon, radius_km, back_days, resp)

SpecCache == InitCache /\ [][NextCache]_vars

\* ------------------------------------------- properties of the fetch cache
\* The index of the first get_data call with the key of call i.
FirstCallFor(i) ==
  CHOOSE j \in 1..i :
    /\ get_calls[j].key = get_calls[i].key
    /\ \A k \in 1..(j - 1) : get_calls[k].key # get_calls[i].key

FetchesFor(key) == {n \in 1..Len(fetch_calls) : fetch_calls[n].key = key}

\* C2: fetch_notable is called at most once per cache key: the first get_data
\* call for a key calls it exactly once and stores what it returned, the empty
\* sequence of a failed fetch included; every later call for the key returns
\* the stored sequence and makes no external call.
C2_FetchOncePerKey ==
  \A i \in 1..Len(get_calls) :
    LET c == get_calls[i]
        first == FirstCallFor(i)
    IN /\ c.fetched <=> (i = first)
       /\ Cardinality(FetchesFor(c.key)) = 1
       /\ \A n \in FetchesFor(c.key) :
            /\ fetch_calls[n].returned = c.data
            /\ (~fetch_calls[n].ok => c.data = <<>>)
       /\ c.data = get_calls[first].data
       /\ c.key \in DOMAIN CACHE /\ CACHE[c.key] = c.data

\* A later call for a key whose fetch had failed: served from the cache.
C2_Witness ==
  \E i, j \in 1..Len(get_calls) :
    /\ i < j
    /\ get_calls[i].key = get_calls[j].key
    /\ get_calls[i].fetched
    /\ \E n \in FetchesFor(get_calls[i].key) : ~fetch_calls[n].ok
    /\ ~get_calls[j].fetched
    /\ get_calls[j].data = <<>>

\* The first six decimals of a coordinate (the digits before the 7th).
FirstSixDecimals(x) == IF x >= 0 THEN x \div 10 ELSE 0 - ((0 - x) \div 10)

\* Both coordinates lie less than half of 1e-6 from one multiple of 1e-6.
RoundTogether(a, b) ==
  \E c \in {a \div 10, (a \div 10) + 1} : Abs(a - 10 * c) < 5 /\ Abs(b - 10 * c) < 5

\* Calls i and j were answered by one external fetch.
OneFetch(i, j) ==
  /\ get_calls[i].key = get_calls[j].key
  /\ ~get_calls[j].fetched
  /\ Cardinality(FetchesFor(get_calls[i].key)) = 1

\* C3 as stated: two get_data calls whose coordinates differ only beyond the
\* 6th decimal place, with the same radius and lookback, make one external
\* fetch; and radius 5 and radius 5.0 give the same key.
C3_SameSixDecimalsCollapse ==
  \A i, j \in 1..Len(get_calls) :
    (/\ i < j
     /\ FirstSixDecimals(get_calls[i].lat) = FirstSixDecimals(get_calls[j].lat)
     /\ FirstSixDecimals(get_calls[i].lon) = FirstSixDecimals(get_calls[j].lon)
     /\ get_calls[i].radius_km.tenths = get_calls[j].radius_km.tenths
     /\ get_calls[i].back_days.tenths = get_calls[j].back_days.tenths)
    => OneFetch(i, j)

\* C3 amended: two get_data calls whose latitudes and whose longitudes round
\* to the same multiple of 0.000001, with radii and lookbacks of the same
\* integer part, make one external fetch; in particular radius 5 and radius
\* 5.0 give the same key.
C3_SameRoundingCollapses ==
  \A i, j \in 1..Len(get_calls) :
    (/\ i < j
     /\ RoundTogether(get_calls[i].lat, get_calls[j].lat)
     /\ RoundTogether(get_calls[i].lon, get_calls[j].lon)
     /\ get_calls[i].radius_km.tenths \div 10 = get_calls[j].radius_km.tenths \div 10
     /\ get_calls[i].back_days.tenths \div 10 = get_calls[j].back_days.tenths \div 10)
    => OneFetch(i, j)

\* 42.3974042 with radius 5, then 42.3974038 with radius 5.0: one fetch.
C3_Witness ==
  \E i, j \in 1..Len(get_calls) :
    /\ i < j
    /\ get_calls[i].lat = 423974042 /\ get_calls[j].lat = 423974038
    /\ get_calls[i].radius_km = IntNum(5) /\ get_calls[j].radius_km = FloatNum(5, 0)
    /\ OneFetch(i, j)
    /\ Len(fetch_calls) = 1

\* ------------------------------------------------------ the whole program
\* Records of the eBird response: two species at one location, the second
\* with a checklist, and a record with neither species nor location name.
Sightings ==
  {Sighting(420000000, -710000000, <<BLUE_JAY>>, <<PARK>>, <<>>),
   Sighting(420000000, -710000000, <<SNOWY_OWL>>, <<PARK>>, <<<<"S", "1">>>>),
   Sighting(421000000, -711000000, <<>>, <<>>, <<>>)}

Feeds == UNION {[1..n -> Sightings] : n \in 0..MaxFeedLen}

SmallResponses == {[ok |-> FALSE, json |-> <<>>]} \cup {[ok |-> TRUE, json |-> f] : f \in Feeds}

\* A response of n records, each of another species and location.
BirdFeed(n) ==
  [i \in 1..n |-> Sighting(420000000 + i, -710000000, <<BIRD \o StrNat(i)>>, <<PARK>>, <<>>)]

LargeResponses ==
  {[ok |-> TRUE, json |-> BirdFeed(n)] :
     n \in (SPECIES_LAYER_THRESHOLD - Margin)..(SPECIES_LAYER_THRESHOLD + Margin)}

\* make_map's arguments: the centre, a radius of 10 (the default) or 5.0 km.
MapArgs ==
  {[lat |-> 423974042, lon |-> -711366337, radius_km |-> r, back_days |-> IntNum(2)] :
     r \in {IntNum(10), FloatNum(5, 0)}}

\* RUN_DATE_ET and RUN_SLOT: unset, a scheduled run after the old artifacts,
\* a scheduled re-run of a day before them.
Schedules ==
  {<<<<>>, <<>>>>,
   <<<<"2", "0", "2", "4", "-", "0", "3", "-", "1", "0">>, SLOT_12>>,
   <<<<"2", "0", "2", "4", "-", "0", "2", "-", "2", "9">>, SLOT_21>>}

\* What the file system does: all well, the copy to latest.html fails in one
\* of its ways, the listing fails, every deletion fails.
IO_OK == [copy |-> COPY_DONE, list_ok |-> TRUE, remove_ok |-> TRUE]
IOs == {[IO_OK EXCEPT !.copy = c] : c \in CopyOutcomes}
         \cup {[IO_OK EXCEPT !.list_ok = FALSE], [IO_OK EXCEPT !.remove_ok = FALSE]}

FullDir == [f \in OldArtifacts \cup {LATEST} |-> OldMap]

Init ==
  /\ InitIdle
  /\ fs \in {<<>>, FullDir}
  /\ KEEP_COUNT \in {-1, 0, 1, DEFAULT_KEEP_COUNT}

\* The script: one make_map call per process.
Next ==
  \/ Tick
  \/ \E args \in MapArgs, sched \in Schedules, resp \in SmallResponses, io \in IOs :
       /\ builds = <<>>
       /\ MakeMap(args, sched[1], sched[2], resp, io)

Spec == Init /\ [][Next]_vars

\* One build per process on a response around the layer threshold.
InitLayers ==
  /\ InitIdle
  /\ fs \in {<<>>, FullDir}
  /\ KEEP_COUNT \in {1, DEFAULT_KEEP_COUNT}

NextLayers ==
  \/ Tick
  \/ \E args \in MapArgs, resp \in LargeResponses :
       \E io \in {IO_OK, [IO_OK EXCEPT !.copy = COPY_PARTIAL]} :
         /\ builds = <<>>
         /\ MakeMap(args, <<>>, <<>>, resp, io)

SpecLayers == InitLayers /\ [][NextLayers]_vars

\* A notebook session: up to MaxBuilds make_map calls in one process, sharing
\* the cache, the file system doing well, after at most one save_and_publish
\* call of an earlier map under an artifact name or under latest.html, whose
\* copy to latest.html may break off.
InitNotebook == InitIdle /\ fs = <<>> /\ KEEP_COUNT = DEFAULT_KEEP_COUNT

NextNotebook ==
  \/ Tick
  \/ \E args \in MapArgs, resp \in SmallResponses :
       /\ Len(get_calls) < MaxBuilds
       /\ MakeMap(args, <<>>, <<>>, resp, IO_OK)
  \/ \E outfile \in {ArtifactName(FileStr(OldInstant(1)), IntNum(10)), LATEST} :
       \E io \in {IO_OK, [IO_OK EXCEPT !.copy = COPY_PARTIAL]} :
         /\ prune_calls = <<>>
         /\ SaveAndPublish(OldMap, outfile, io)

SpecNotebook == InitNotebook /\ [][NextNotebook]_vars

\* ------------------------------------------------- properties of a build
LastBuild == builds[Len(builds)]

\* The artifacts retention keeps whatever happens: the keep greatest names,
\* or, for keep < 0, all but the -keep smallest.
Kept(dir, keep) ==
  IF keep >= 0 THEN TopK(Artifacts(dir), keep)
  ELSE TopK(Artifacts(dir), Cardinality(Artifacts(dir)) + keep)

\* C6 as stated: a build on an empty record sequence ends with its artifact
\* present in the output directory, as the only new artifact, and with
\* latest.html holding the same map.
C6_EmptyBuildPublishes ==
  (builds # <<>> /\ LastBuild.data = <<>>) =>
    LET b == LastBuild
    IN /\ Untouched(b.outfile, (b.outfile :> b.m), fs)
       /\ Untouched(LATEST, (LATEST :> b.m), fs)
       /\ Artifacts(fs) \ Artifacts(b.before) \subseteq {b.outfile}

\* C6 amended: a build on an empty record sequence (a failed fetch included)
\* writes the map with the no-data notice and an empty legend under its
\* timestamped name, copies it to latest.html unless the copy fails (then
\* latest.html is left as it was, or is left empty or with only a beginning
\* of the new map), and prunes; it creates no other file; its
\* artifact is present at the end if it is among the artifacts retention
\* keeps, and when no listing or deletion fails it is present only then.
C6_EmptyBuildPublishesUnlessPruned ==
  (builds # <<>> /\ LastBuild.data = <<>>) =>
    LET b == LastBuild
    IN /\ b.m.notice /\ b.m.legend = <<>> /\ b.m.layers = <<>>
       /\ IsArtifact(b.outfile)
       /\ b.saved
       /\ prune_calls # <<>>
       /\ LET p == LastPrune
          IN /\ p.keep = KEEP_COUNT
             /\ Untouched(b.outfile, (b.outfile :> b.m), p.before)
             /\ b.copy = COPY_DONE => Untouched(LATEST, (LATEST :> b.m), fs)
             /\ b.copy = COPY_REFUSED =>
                  IF LATEST \in DOMAIN b.before THEN Untouched(LATEST, b.before, fs)
                  ELSE LATEST \notin DOMAIN fs
             /\ b.copy = COPY_EMPTY =>
                  Untouched(LATEST, (LATEST :> TornCopy(b.m, 0)), fs)
             /\ b.copy = COPY_PARTIAL =>
                  Untouched(LATEST, (LATEST :> TornCopy(b.m, 1)), fs)
             /\ DOMAIN fs \subseteq DOMAIN b.before \cup {b.outfile, LATEST}
             /\ b.outfile \in Kept(p.before, KEEP_COUNT) =>
                  Untouched(b.outfile, (b.outfile :> b.m), fs)
             /\ (p.list_ok /\ p.failed = {}) =>
                  (b.outfile \in DOMAIN fs <=> b.outfile \in Kept(p.before, KEEP_COUNT))

\* A failed fetch with KEEP_COUNT = 1 on a directory of older artifacts: the
\* notice map is the one artifact left and latest.html holds it.
C6_Witness ==
  /\ builds # <<>>
  /\ ~LastBuild.fetch_ok /\ LastBuild.fetched /\ LastBuild.data = <<>>
  /\ LastBuild.before = FullDir
  /\ KEEP_COUNT = 1
  /\ Artifacts(fs) = {LastBuild.outfile}
  /\ fs[LastBuild.outfile].notice
  /\ fs[LATEST] = LastBuild.m

\* The species of a record and the group it belongs to.
SpeciesOf(s) == OrDefault(s.comName, UNKNOWN)
GroupOf(s) == <<<<s.lat, s.lng>>, SpeciesOf(s)>>

\* Every detail entry of loc_species, as (location, species, position).
EntriesOf(ls) ==
  UNION {UNION {{<<loc, sp, i>> : i \in 1..Len(ls[loc][sp])} : sp \in DOMAIN ls[loc]} :
           loc \in DOMAIN ls}

\* C8: for a non-empty record sequence the detail entries of all (location,
\* species) groups of loc_species number as many as the records, and every
\* group holds one entry per record of its location and species, identical
\* records included.
C8_NoRecordDropped ==
  (builds # <<>> /\ LastBuild.data # <<>>) =>
    LET data == LastBuild.data
        ls == LastBuild.m.loc_species
    IN /\ Cardinality(EntriesOf(ls)) = Len(data)
       /\ \A i \in 1..Len(data) :
            LET g == GroupOf(data[i])
            IN /\ g[1] \in DOMAIN ls
               /\ g[2] \in DOMAIN ls[g[1]]
               /\ Len(ls[g[1]][g[2]]) =
                    Cardinality({j \in 1..Len(data) : GroupOf(data[j]) = g})

\* Two identical records: one group with two entries.
C8_Witness ==
  /\ builds # <<>>
  /\ Len(LastBuild.data) = 2
  /\ LastBuild.data[1] = LastBuild.data[2]
  /\ Cardinality(EntriesOf(LastBuild.m.loc_species)) = 2
  /\ Cardinality(DOMAIN LastBuild.m.loc_species) = 1

SpeciesIn(data) == {SpeciesOf(data[i]) : i \in 1..Len(data)}

\* C9: the map has the single layer "Notable sightings" if and only if the
\* number of distinct species is greater than SPECIES_LAYER_THRESHOLD; at the
\* threshold and below it has one layer per species; nothing else (radius,
\* directory, retention count, a failing copy) enters the decision.
C9_CombinedIffAboveThreshold ==
  (builds # <<>> /\ LastBuild.data # <<>>) =>
    LET n == Cardinality(SpeciesIn(LastBuild.data))
        layers == LastBuild.m.layers
    IN /\ (layers = <<NOTABLE_SIGHTINGS>>) <=> (n > SPECIES_LAYER_THRESHOLD)
       /\ n <= SPECIES_LAYER_THRESHOLD =>
            (Len(layers) = n /\ Range(layers) = SpeciesIn(LastBuild.data))

\* SPECIES_LAYER_THRESHOLD species exactly: one layer each.
C9_Witness ==
  /\ builds # <<>>
  /\ Cardinality(SpeciesIn(LastBuild.data)) = SPECIES_LAYER_THRESHOLD
  /\ Len(LastBuild.m.layers) = SPECIES_LAYER_THRESHOLD

\* C10: a species name has one colour in every species-to-color table of the
\* process, whatever the records, their order and the other species of the
\* build; a record without a name is listed as "Unknown" with the colour
\* color_for_species gives to no name and to "Unknown".
C10_ColourByNameAlone ==
  /\ \A p, q \in legend_seen : p[1] = q[1] => p[2] = q[2]
  /\ color_for_species(<<>>) = color_for_species(<<UNKNOWN>>)
  /\ \A i \in 1..Len(get_calls) :
       (\E k \in 1..Len(get_calls[i].data) : get_calls[i].data[k].comName = <<>>)
         => <<UNKNOWN, color_for_species(<<>>)>> \in legend_seen

\* Two builds of one process on different records, Snowy Owl first alone and
\* then after Blue Jay, with one colour.
C10_Witness ==
  /\ Len(get_calls) = 2
  /\ SpeciesIn(get_calls[1].data) = {SNOWY_OWL}
  /\ SpeciesIn(get_calls[2].data) = {BLUE_JAY, SNOWY_OWL}
  /\ Cardinality({p \in legend_seen : p[1] = SNOWY_OWL}) = 1

\* ------------------------------------------------ the run-time resolver alone
ComputeDtEt(run_date, run_slot) ==
  LET res == compute_dt_et(run_date, run_slot, Instant(now))
  IN /\ dt_calls' = <<[run_date |-> run_date, run_slot |-> run_slot,
                       now_dt |-> Instant(now), raised |-> res.raised,
                       mode |-> res.mode, dt |-> res.dt, file_str |-> res.file_str]>>
     /\ UNCHANGED <<fs, KEEP_COUNT, CACHE, fetch_calls, get_calls, now,
                    prune_calls, builds, legend_seen>>

\* Values of RUN_DATE_ET (<<>> when unset) and RUN_SLOT.
RunDates ==
  {<<>>,
   <<"2", "0", "2", "4", "-", "0", "3", "-", "1", "0">>,
   <<"2", "0", "2", "4", "-", "0", "2", "-", "2", "9">>,
   <<"2", "0", "2", "3", "-", "0", "2", "-", "2", "9">>,
   <<"2", "0", "2", "4", "-", "1", "3", "-", "0", "1">>,
   <<"2", "0", "2", "4", "-", "3", "-", "9">>,
   <<"2", "0", "2", "4", "0", "3", "1", "0">>,
   <<"2", "0", "2", "4", "-", "0", "3">>,
   <<"2", "0", "2", "4", "-", "0", "3", "-", "1", "0", "-", "1">>,
   <<"s", "o", "o", "n">>,
   <<"2", "0", "2", "4", "-", "0", "3", "-", " ", "9">>,
   <<"+", "2", "0", "2", "4", "-", "0", "3", "-", "1", "0">>,
   <<"0", "-", "0", "3", "-", "1", "0">>,
   <<"2", "0", "2", "4", "-", "0", "0", "-", "1", "0">>,
   <<"2", "0", "2", "4", "-", "0", "3", "-", "x", "x">>,
   <<"2", "_", "0", "2", "4", "-", "0", "3", "-", "1", "0">>,
   <<"2", "_", "_", "0", "2", "4", "-", "0", "3", "-", "1", "0">>,
   <<"_", "2", "0", "2", "4", "-", "0", "3", "-", "1", "0">>,
   <<"2", "0", "2", "4", "-", "0", "3", "-", "1", "_">>,
   <<"\t", "2", "0", "2", "4", "-", "0", "3", "-", "1", "0">>,
   <<"2", "0", "2", "4", "-", "0", "3", "-", "1", "0", "\n">>,
   <<"2", "0", "2", "4", "-", "0", "3", "-", "0", DEVANAGARI_NINE>>}

RunSlots == {<<>>, SLOT_12, SLOT_21, <<"9">>, <<"0", "1", "2">>, <<"n", "o", "o", "n">>}

InitResolver == InitIdle /\ fs = <<>> /\ KEEP_COUNT = DEFAULT_KEEP_COUNT

NextResolver ==
  \/ Tick
  \/ \E run_date \in RunDates, run_slot \in RunSlots : ComputeDtEt(run_date, run_slot)

SpecResolver == InitResolver /\ [][NextResolver]_vars

\* -------------------------------------------- properties of the resolver
\* t is an integer literal as int() reads it: between optional whitespace,
\* an optional "+" and then groups of digits joined by single underscores.
IsIntLiteral(t) ==
  LET inked == {i \in 1..Len(t) : t[i] \notin Whitespace}
  IN /\ inked # {}
     /\ LET lo == CHOOSE i \in inked : \A k \in inked : i <= k
            hi == CHOOSE i \in inked : \A k \in inked : k <= i
            first == IF t[lo] = "+" THEN lo + 1 ELSE lo
        IN /\ first <= hi
           /\ t[first] \in IntDigitChars /\ t[hi] \in IntDigitChars
           /\ \A k \in first..hi : t[k] \in IntDigitChars \cup {"_"}
           /\ \A k \in first..(hi - 1) : ~(t[k] = "_" /\ t[k + 1] = "_")

LiteralValue(t) == DigitsVal(SelectSeq(t, LAMBDA c : c \in IntDigitChars))

\* The date a RUN_DATE_ET value denotes, <<y, mo, d>>: exactly two "-", three
\* integer literals, a day that exists in the calendar of years 1..9999;
\* <<>> when it denotes none.
DateOf(run_date) ==
  LET dashes == {i \in 1..Len(run_date) : run_date[i] = "-"}
  IN IF Cardinality(dashes) # 2 THEN <<>>
     ELSE LET i == CHOOSE k \in dashes : \A m \in dashes : k <= m
              j == CHOOSE k \in dashes : \A m \in dashes : m <= k
              fy == SubSeq(run_date, 1, i - 1)
              fm == SubSeq(run_date, i + 1, j - 1)
              fd == SubSeq(run_date, j + 1, Len(run_date))
          IN IF ~(IsIntLiteral(fy) /\ IsIntLiteral(fm) /\ IsIntLiteral(fd)) THEN <<>>
             ELSE LET y == LiteralValue(fy)
                      mo == LiteralValue(fm)
                      d == LiteralValue(fd)
                  IN IF /\ y \in 1..9999 /\ mo \in 1..12
                        /\ d >= 1
                        /\ d <= (CASE mo \in {1, 3, 5, 7, 8, 10, 12} -> 31
                                   [] mo \in {4, 6, 9, 11} -> 30
                                   [] OTHER -> IF y % 4 = 0 /\ (y % 100 # 0 \/ y % 400 = 0)
                                               THEN 29 ELSE 28)
                     THEN <<y, mo, d>> ELSE <<>>

\* C7: compute_dt_et never raises; it returns the scheduled instant (the date
\* of RUN_DATE_ET at hour 12 or 21, minute 0, second 0) exactly when
\* RUN_DATE_ET is set, RUN_SLOT is "12" or "21" and the date parses; in every
\* other case it returns now.
C7_ScheduledOrNow ==
  \A n \in 1..Len(dt_calls) :
    LET c == dt_calls[n]
        date == DateOf(c.run_date)
        scheduled == c.run_date # <<>> /\ c.run_slot \in {SLOT_12, SLOT_21} /\ date # <<>>
    IN /\ ~c.raised
       /\ (c.mode = "scheduled") <=> scheduled
       /\ scheduled =>
            c.dt = [y |-> date[1], mo |-> date[2], d |-> date[3],
                    h |-> IF c.run_slot = SLOT_12 THEN 12 ELSE 21, mi |-> 0, s |-> 0,
                    us |-> 0]
       /\ ~scheduled => c.dt = c.now_dt

\* A recognised slot with a date that does not exist: now is returned.
C7_Witness ==
  \E n \in 1..Len(dt_calls) :
    /\ dt_calls[n].run_date = <<"2", "0", "2", "3", "-", "0", "2", "-", "2", "9">>
    /\ dt_calls[n].run_slot = SLOT_21
    /\ dt_calls[n].mode = "now"
    /\ dt_calls[n].dt = Instant(2)
    /\ ~dt_calls[n].raised

\* ------------------------------------------------- the archive over time
\* RUN_DATE_ET and RUN_SLOT of the runs that fill an archive: unset, the
\* evening of the last day of year 999, noon of the first day of year 1000,
\* noon of the day of the clock.
ArchiveSchedules ==
  {<<<<>>, <<>>>>,
   <<<<"9", "9", "9", "-", "1", "2", "-", "3", "1">>, SLOT_21>>,
   <<<<"1", "0", "0", "0", "-", "0", "1", "-", "0", "1">>, SLOT_12>>,
   <<<<"2", "0", "2", "4", "-", "0", "3", "-", "1", "0">>, SLOT_12>>}

ArchiveResponses ==
  {[ok |-> FALSE, json |-> <<>>],
   [ok |-> TRUE, json |-> <<Sighting(420000000, -710000000, <<BLUE_JAY>>, <<PARK>>, <<>>)>>]}

InitArchive ==
  /\ InitIdle
  /\ fs = <<>>
  /\ KEEP_COUNT \in {1, DEFAULT_KEEP_COUNT}

\* Up to MaxBuilds runs of the script into one output directory, the file
\* system doing well.
NextArchive ==
  \/ Tick
  \/ \E sched \in ArchiveSchedules, resp \in ArchiveResponses :
       /\ Len(get_calls) < MaxBuilds
       /\ RunScript(sched[1], sched[2], resp, IO_OK)

SpecArchive == InitArchive /\ [][NextArchive]_vars

\* ---------------------------------------------- properties of the archive
\* t1 < t2 for two datetimes of one time zone.
InstantLess(t1, t2) ==
  LET a == <<t1.y, t1.mo, t1.d, t1.h, t1.mi, t1.s, t1.us>>
      b == <<t2.y, t2.mo, t2.d, t2.h, t2.mi, t2.s, t2.us>>
  IN \E i \in 1..7 : a[i] < b[i] /\ \A j \in 1..(i - 1) : a[j] = b[j]

\* C11 as stated: of two builds with instants t1 < t2 the artifact name of the
\* first sorts strictly before that of the second, so after pruning no removed
\* artifact is of a later instant than one that was kept.
C11_NameOrderFollowsTime ==
  /\ \A f, g \in Artifacts(fs) :
       InstantLess(fs[f].built, fs[g].built) => StrLess(f, g)
  /\ \A n \in 1..Len(prune_calls) :
       LET p == prune_calls[n]
           kept == Artifacts(p.before) \ Range(p.tried)
       IN \A f \in kept, g \in Range(p.tried) :
            ~InstantLess(p.before[f].built, p.before[g].built)
  /\ (builds # <<>> /\ LastBuild.outfile \in DOMAIN LastBuild.before) =>
       ~InstantLess(LastBuild.before[LastBuild.outfile].built, LastBuild.m.built)

\* What does hold of the names: between artifacts of four-digit years whose
\* instants differ in their seconds, the earlier one has the smaller name.
SecondLess(t1, t2) == InstantLess([t1 EXCEPT !.us = 0], [t2 EXCEPT !.us = 0])

NameOrderOfFourDigitYears ==
  \A f, g \in Artifacts(fs) :
    (/\ fs[f].built.y \in 1000..9999
     /\ fs[g].built.y \in 1000..9999
     /\ SecondLess(fs[f].built, fs[g].built)) => StrLess(f, g)

====
